---- MODULE Spec2Model ----
(***************************************************************************)
(* Little Lemon booking widget (src/App.js): the timeslot generator, the   *)
(* booking store with its availability check, validation and admission,    *)
(* cancellation, the upcoming-bookings view and the localStorage           *)
(* persistence, as one state machine.                                      *)
(*                                                                         *)
(* Strings are sequences of one-character strings, so that trim, split,    *)
(* padStart, the regular expressions and Number() are computed on the      *)
(* characters.  A JS number is [nan, num, den] (num/den, den a power of    *)
(* ten).  A Date is [valid, t] with t in local wall-clock minutes since    *)
(* 1970-01-01.                                                             *)
(***************************************************************************)
EXTENDS Integers, Sequences, FiniteSets, TLC

VARIABLES
    phase,            \* "boot" | "running" | "crashed" (render threw)
    bookings,         \* useState bookings, line 60: [kind, items]
    form,             \* useState form, line 70
    errors,           \* useState errors, line 80: the fields that carry a message
    success,          \* useState success, line 81: "null" | "confirmed"
    storage,          \* localStorage["littleLemonBookings"]
    effectPending,    \* the [bookings] effect of line 83 is scheduled
    upcomingBookings, \* line 149, as computed by the last render
    today,            \* useMemo today, line 59
    timeslots,        \* TIMESLOTS, line 55
    now,              \* the wall clock, minutes
    tz,               \* today's local-time transition: [start, len]
    call,             \* a stand-alone call of generateTimeSlots: its arguments
    slots             \* ... and what it returned

vars == <<phase, bookings, form, errors, success, storage, effectPending,
          upcomingBookings, today, timeslots, now, tz, call, slots>>

----------------------------------------------------------------------------
(* Characters and strings                                                  *)

Digits == <<"0", "1", "2", "3", "4", "5", "6", "7", "8", "9">>

IsDigit(c) == \E i \in 1..10 : Digits[i] = c

DigitVal(c) == (CHOOSE i \in 1..10 : Digits[i] = c) - 1

\* \s of the regular expressions and String.prototype.trim
IsSpace(c) == c \in {" ", "\t", "\n"}

RECURSIVE TrimStart(_)
TrimStart(s) ==
    IF s # <<>> /\ IsSpace(Head(s)) THEN TrimStart(Tail(s)) ELSE s

RECURSIVE TrimEnd(_)
TrimEnd(s) ==
    IF s # <<>> /\ IsSpace(s[Len(s)]) THEN TrimEnd(SubSeq(s, 1, Len(s) - 1)) ELSE s

\* String.prototype.trim
Trim(s) == TrimEnd(TrimStart(s))

\* String(n) for an integer n >= 0
RECURSIVE String(_)
String(n) ==
    IF n < 10 THEN <<Digits[n + 1]>> ELSE String(n \div 10) \o <<Digits[(n % 10) + 1]>>

\* s.padStart(width, "0")
RECURSIVE padStart(_, _)
padStart(s, width) ==
    IF Len(s) >= width THEN s ELSE padStart(<<"0">> \o s, width)

\* s.split(sep) for a one-character separator
RECURSIVE SplitFrom(_, _, _)
SplitFrom(s, sep, cur) ==
    IF s = <<>> THEN <<cur>>
    ELSE IF Head(s) = sep THEN <<cur>> \o SplitFrom(Tail(s), sep, <<>>)
    ELSE SplitFrom(Tail(s), sep, Append(cur, Head(s)))

split(s, sep) == SplitFrom(s, sep, <<>>)

----------------------------------------------------------------------------
(* JS numbers                                                              *)

NaN == [nan |-> TRUE, num |-> 0, den |-> 1]

Int2Num(n) == [nan |-> FALSE, num |-> n, den |-> 1]

AllDigits(s) == s # <<>> /\ \A i \in 1..Len(s) : IsDigit(s[i])

RECURSIVE DigitsVal(_)
DigitsVal(s) ==
    IF s = <<>> THEN 0 ELSE DigitsVal(SubSeq(s, 1, Len(s) - 1)) * 10 + DigitVal(s[Len(s)])

RECURSIVE Pow10(_)
Pow10(k) == IF k = 0 THEN 1 ELSE 10 * Pow10(k - 1)

\* An unsigned decimal literal: digits, or digits "." digits.
UnsignedNum(s) ==
    LET parts == split(s, ".") IN
    IF Len(parts) = 1 /\ AllDigits(parts[1])
        THEN Int2Num(DigitsVal(parts[1]))
    ELSE IF Len(parts) = 2 /\ AllDigits(parts[1]) /\ AllDigits(parts[2])
        THEN [nan |-> FALSE,
              num |-> DigitsVal(parts[1]) * Pow10(Len(parts[2])) + DigitsVal(parts[2]),
              den |-> Pow10(Len(parts[2]))]
    ELSE NaN

\* Number(v): a number is itself; a string is trimmed, "" is 0, a signed
\* decimal literal is its value and any other text of the alphabet is NaN.
Number(v) ==
    IF v.t = "number" THEN v.val
    ELSE LET s == Trim(v.val)
             u == IF s # <<>> /\ Head(s) \in {"+", "-"} THEN UnsignedNum(Tail(s))
                  ELSE UnsignedNum(s) IN
         IF s = <<>> THEN Int2Num(0)
         ELSE IF Head(s) = "-" /\ ~u.nan THEN [u EXCEPT !.num = 0 - u.num]
         ELSE u

\* a >= k and a <= k for an integer k; false when a is NaN
NumGE(a, k) == ~a.nan /\ a.num >= k * a.den

NumLE(a, k) == ~a.nan /\ a.num <= k * a.den

IsInteger(a) == ~a.nan /\ a.num % a.den = 0

\* ToIntegerOrInfinity of a finite number: truncation toward zero
Trunc(a) == IF a.num >= 0 THEN a.num \div a.den ELSE 0 - ((0 - a.num) \div a.den)

Str(s) == [t |-> "string", val |-> s]

Num(a) == [t |-> "number", val |-> a]

----------------------------------------------------------------------------
(* Dates: local wall-clock minutes since 1970-01-01                        *)

MinutesPerDay == 24 * 60

\* days since 1970-01-01 of the civil date y-m-d
DaysFromCivil(y, m, d) ==
    LET yy  == IF m <= 2 THEN y - 1 ELSE y
        era == yy \div 400
        yoe == yy - era * 400
        mp  == IF m > 2 THEN m - 3 ELSE m + 9
        doy == (153 * mp + 2) \div 5 + d - 1
        doe == yoe * 365 + yoe \div 4 - yoe \div 100 + doy
    IN  era * 146097 + doe - 719468

\* the civil date <<y, m, d>> of a day number
CivilFromDays(days) ==
    LET z   == days + 719468
        era == z \div 146097
        doe == z - era * 146097
        yoe == (doe - doe \div 1460 + doe \div 36524 - doe \div 146096) \div 365
        doy == doe - (365 * yoe + yoe \div 4 - yoe \div 100)
        mp  == (5 * doy + 2) \div 153
        d   == doy - (153 * mp + 2) \div 5 + 1
        m   == IF mp < 10 THEN mp + 3 ELSE mp - 9
        y   == yoe + era * 400
    IN  <<IF m <= 2 THEN y + 1 ELSE y, m, d>>

DaysInMonth(y, m) ==
    IF m \in {4, 6, 9, 11} THEN 30
    ELSE IF m # 2 THEN 31
    ELSE IF (y % 4 = 0 /\ y % 100 # 0) \/ y % 400 = 0 THEN 29 ELSE 28

InvalidDate == [valid |-> FALSE, t |-> 0]

\* A local time that the transition tz skips is read with the offset before
\* the transition, which shows as the wall clock tz.len minutes later.
Resolve(w) ==
    IF tz.len > 0 /\ w >= tz.from /\ w < tz.from + tz.len THEN w + tz.len ELSE w

\* new Date()
NewDate == [valid |-> TRUE, t |-> now]

\* d.setHours(h, m, 0, 0), h and m JS numbers
setHours(d, h, m) ==
    IF ~d.valid \/ h.nan \/ m.nan THEN InvalidDate
    ELSE [valid |-> TRUE,
          t |-> Resolve((d.t \div MinutesPerDay) * MinutesPerDay + Trunc(h) * 60 + Trunc(m))]

getHours(d) == (d.t % MinutesPerDay) \div 60

getMinutes(d) == d.t % 60

\* d.setMinutes(m), m an integer
setMinutes(d, m) ==
    IF ~d.valid THEN InvalidDate
    ELSE [valid |-> TRUE, t |-> Resolve(d.t - getMinutes(d) + m)]

\* a <= b, a < b, a >= b on Dates: false when either is invalid
DateLE(a, b) == a.valid /\ b.valid /\ a.t <= b.t

DateLT(a, b) == a.valid /\ b.valid /\ a.t < b.t

DateGE(a, b) == a.valid /\ b.valid /\ a.t >= b.t

\* new Date(s) for s = "YYYY-MM-DDTHH:mm" or "YYYY-MM-DDTHH:mm:ss": local
\* time; anything else of the alphabet is an Invalid Date.
ParseDate(s) ==
    LET okShape == /\ Len(s) \in {16, 19}
                   /\ s[5] = "-" /\ s[8] = "-" /\ s[11] = "T" /\ s[14] = ":"
                   /\ \A i \in {1, 2, 3, 4, 6, 7, 9, 10, 12, 13, 15, 16} : IsDigit(s[i])
                   /\ (Len(s) = 19 => s[17] = ":" /\ IsDigit(s[18]) /\ IsDigit(s[19]))
        y == DigitsVal(SubSeq(s, 1, 4))
        m == DigitsVal(SubSeq(s, 6, 7))
        d == DigitsVal(SubSeq(s, 9, 10))
        hh == DigitsVal(SubSeq(s, 12, 13))
        mm == DigitsVal(SubSeq(s, 15, 16))
    IN  IF /\ okShape
           /\ m \in 1..12 /\ d \in 1..DaysInMonth(y, m)
           /\ hh \in 0..23 /\ mm \in 0..59
           /\ (Len(s) = 19 => DigitsVal(SubSeq(s, 18, 19)) \in 0..59)
        THEN [valid |-> TRUE,
              t |-> Resolve(DaysFromCivil(y, m, d) * MinutesPerDay + hh * 60 + mm)]
        ELSE InvalidDate

\* formatDate, lines 30-35
formatDate(d) ==
    LET c == CivilFromDays(d.t \div MinutesPerDay)
        y == String(c[1])
        m == padStart(String(c[2]), 2)
        day == padStart(String(c[3]), 2)
    IN  y \o <<"-">> \o m \o <<"-">> \o day

----------------------------------------------------------------------------
(* Timeslot generator, lines 38-53                                         *)

\* The while loop of lines 46-51.  The next base and the grown list are
\* bound as values before the loop goes round.
RECURSIVE SlotLoop(_, _, _, _)
SlotLoop(base, end, stepMinutes, acc) ==
    IF DateLE(base, end)
    THEN LET hh == padStart(String(getHours(base)), 2)
             mm == padStart(String(getMinutes(base)), 2)
         IN  CHOOSE r \in {SlotLoop(b, end, stepMinutes, a) :
                              b \in {setMinutes(base, getMinutes(base) + stepMinutes)},
                              a \in {Append(acc, hh \o <<":">> \o mm)}} : TRUE
    ELSE acc

generateTimeSlots(open, close, stepMinutes) ==
    LET o == split(open, ":")
        c == split(close, ":")
        openH == Number(Str(o[1]))
        openM == IF Len(o) >= 2 THEN Number(Str(o[2])) ELSE NaN
        closeH == Number(Str(c[1]))
        closeM == IF Len(c) >= 2 THEN Number(Str(c[2])) ELSE NaN
        base == setHours(NewDate, openH, openM)
        end == setHours(NewDate, closeH, closeM)
    IN  SlotLoop(base, end, stepMinutes, <<>>)

DEFAULT_OPEN == <<"1", "1", ":", "0", "0">>

DEFAULT_CLOSE == <<"2", "2", ":", "0", "0">>

DEFAULT_STEP == 30

\* const TIMESLOTS = generateTimeSlots(), line 55
TIMESLOTS == generateTimeSlots(DEFAULT_OPEN, DEFAULT_CLOSE, DEFAULT_STEP)

MAX_TABLES_PER_SLOT == 6

----------------------------------------------------------------------------
(* JSON and localStorage                                                   *)

Fields == {"name", "phone", "email", "date", "time", "partySize", "notes"}

Null == [t |-> "null", val |-> Int2Num(0)]

\* JSON.stringify of one value: a number that is not finite is written null
ToJSON(v) == IF v.t = "number" /\ v.val.nan THEN Null ELSE v

\* JSON.stringify of a booking: its own properties, in order
StringifyBooking(b) == [b EXCEPT !.partySize = ToJSON(b.partySize)]

\* JSON.stringify(bookings): the text of the whole array
stringify(b) ==
    [present |-> TRUE, empty |-> FALSE, wellFormed |-> TRUE,
     value |-> [kind |-> b.kind,
                items |-> [i \in 1..Len(b.items) |-> StringifyBooking(b.items[i])]]]

EmptyArray == [kind |-> "array", items |-> <<>>]

\* no item under the key: getItem returns null
Missing == [present |-> FALSE, empty |-> FALSE, wellFormed |-> FALSE, value |-> EmptyArray]

\* the empty string
EmptyText == [present |-> TRUE, empty |-> TRUE, wellFormed |-> FALSE, value |-> EmptyArray]

\* a text JSON.parse throws on
Unparseable == [present |-> TRUE, empty |-> FALSE, wellFormed |-> FALSE, value |-> EmptyArray]

\* a text JSON.parse accepts, holding the value v
JsonText(v) == [present |-> TRUE, empty |-> FALSE, wellFormed |-> TRUE, value |-> v]

\* the useState initializer, lines 60-68
LoadBookings(raw) ==
    IF ~raw.present \/ raw.empty THEN EmptyArray       \* raw ? ... : []
    ELSE IF ~raw.wellFormed THEN EmptyArray            \* catch (e) { return [] }
    ELSE raw.value                                     \* JSON.parse(raw)

----------------------------------------------------------------------------
(* Availability, lines 88-94                                               *)

IsArray(b) == b.kind = "array"

countBookings(b, date, time) ==
    Len(SelectSeq(b.items, LAMBDA x : x.date = date /\ x.time = time))

Max(a, b) == IF a >= b THEN a ELSE b

\* availableTables taking the capacity as one more than it is
availableTablesOffByOne(b, date, time) ==
    Max(0, MAX_TABLES_PER_SLOT + 1 - countBookings(b, date, time))

availableTables(b, date, time) ==
    Max(0, MAX_TABLES_PER_SLOT - countBookings(b, date, time))

----------------------------------------------------------------------------
(* Validation, lines 96-115                                                *)

\* /^\d{7,15}$/.test(phone.replace(/[^0-9]/g, ""))
PhoneOk(phone) ==
    LET digits == SelectSeq(phone, IsDigit) IN Len(digits) >= 7 /\ Len(digits) <= 15

\* /^[^@\s]+@[^@\s]+\.[^@\s]+$/.test(email)
EmailOk(email) ==
    LET parts == split(email, "@") IN
    /\ Len(parts) = 2
    /\ \A i \in 1..Len(email) : ~IsSpace(email[i])
    /\ parts[1] # <<>>
    /\ \E i \in 2..(Len(parts[2]) - 1) : parts[2][i] = "."

GRACE_MINUTES == 5

\* selected < new Date(now.getTime() - 5 * 60 * 1000)
PastDateTime(f, clock) ==
    DateLT(ParseDate(f.date \o <<"T">> \o f.time \o <<":", "0", "0">>),
           [valid |-> TRUE, t |-> clock - GRACE_MINUTES])

MIN_PARTY == 1

MAX_PARTY == 12

PartySizeOk(f) ==
    NumGE(Number(f.partySize), MIN_PARTY) /\ NumLE(Number(f.partySize), MAX_PARTY)

\* validate with the availability test written "< 0"
validateNegativeOnly(f, b, clock) ==
    {k \in Fields :
        \/ k = "name" /\ Trim(f.name) = <<>>
        \/ k = "phone" /\ ~PhoneOk(f.phone)
        \/ k = "email" /\ ~EmailOk(f.email)
        \/ k = "date" /\ PastDateTime(f, clock)
        \/ k = "partySize" /\ ~PartySizeOk(f)
        \/ k = "time" /\ availableTables(b, f.date, f.time) < 0}

\* the object e of validate: the fields that get a message
validate(f, b, clock) ==
    {k \in Fields :
        \/ k = "name" /\ Trim(f.name) = <<>>
        \/ k = "phone" /\ ~PhoneOk(f.phone)
        \/ k = "email" /\ ~EmailOk(f.email)
        \/ k = "date" /\ PastDateTime(f, clock)
        \/ k = "partySize" /\ ~PartySizeOk(f)
        \/ k = "time" /\ availableTables(b, f.date, f.time) <= 0}

----------------------------------------------------------------------------
(* Rendering                                                               *)

UPCOMING_LIMIT == 50

\* the filter written with > where the code has >=
upcomingStrictlyAfter(b, clock) ==
    LET kept == SelectSeq(b.items,
                    LAMBDA x : DateLT([valid |-> TRUE, t |-> clock],
                                      ParseDate(x.date \o <<"T">> \o x.time)))
    IN  SubSeq(kept, 1, IF Len(kept) < UPCOMING_LIMIT THEN Len(kept) ELSE UPCOMING_LIMIT)

\* bookings.filter(...).slice(0, 50), line 149
upcoming(b, clock) ==
    LET kept == SelectSeq(b.items,
                    LAMBDA x : DateGE(ParseDate(x.date \o <<"T">> \o x.time),
                                      [valid |-> TRUE, t |-> clock]))
    IN  SubSeq(kept, 1, IF Len(kept) < UPCOMING_LIMIT THEN Len(kept) ELSE UPCOMING_LIMIT)

\* A render calls bookings.filter (lines 89, 149): a TypeError unless
\* bookings is an array.
RenderThrows(b) == ~IsArray(b)

----------------------------------------------------------------------------
(* The component's state and handlers                                      *)

NoSuccess == [shown |-> FALSE, date |-> <<>>, time |-> <<>>]

\* the useState initializer of form, lines 70-78
InitialForm(day, ts) ==
    [name |-> <<>>, phone |-> <<>>, email |-> <<>>, date |-> day, time |-> ts[1],
     partySize |-> Num(Int2Num(2)), notes |-> <<>>]

\* The page loads: the module is evaluated (TIMESLOTS, line 55), then the
\* first render runs the initializers (lines 59-81), evaluates the JSX and
\* schedules the effect of line 83.
Mount ==
    /\ phase = "boot"
    /\ LET b == LoadBookings(storage)
           day == formatDate(NewDate) IN
        /\ bookings' = b
        /\ today' = day
        /\ form' = InitialForm(day, TIMESLOTS)
        /\ IF RenderThrows(b)
           THEN phase' = "crashed" /\ effectPending' = FALSE /\ upcomingBookings' = <<>>
           ELSE phase' = "running" /\ effectPending' = TRUE
                /\ upcomingBookings' = upcoming(b, now)
    /\ timeslots' = TIMESLOTS
    /\ errors' = {}
    /\ success' = NoSuccess
    /\ UNCHANGED <<storage, now, tz, call, slots>>

\* Handlers run on a mounted component whose effects have been flushed.
Idle == phase = "running" /\ ~effectPending

\* the effect writing only a store that has bookings
persistEffectSkipEmpty ==
    /\ phase = "running"
    /\ effectPending
    /\ storage' = IF bookings.items = <<>> THEN storage ELSE stringify(bookings)
    /\ effectPending' = FALSE
    /\ UNCHANGED <<phase, bookings, form, errors, success, upcomingBookings, today,
                   timeslots, now, tz, call, slots>>

\* useEffect(..., [bookings]), lines 83-85
persistEffect ==
    /\ phase = "running"
    /\ effectPending
    /\ storage' = stringify(bookings)
    /\ effectPending' = FALSE
    /\ UNCHANGED <<phase, bookings, form, errors, success, upcomingBookings, today,
                   timeslots, now, tz, call, slots>>

\* handleChange, lines 117-121: value is the input's string
handleChange(name, value) ==
    /\ Idle
    /\ form' = [form EXCEPT ![name] = IF name = "partySize" THEN Str(value) ELSE value]
    /\ errors' = errors \ {name}
    /\ upcomingBookings' = upcoming(bookings, now)
    /\ UNCHANGED <<phase, bookings, success, storage, effectPending, today, timeslots,
                   now, tz, call, slots>>

\* the object literal of lines 127-137; createdAt is the instant, which
\* toISOString renders one-to-one
newBooking(f, clock, rnd) ==
    [id |-> [ts |-> clock, rnd |-> rnd],
     name |-> Trim(f.name),
     phone |-> Trim(f.phone),
     email |-> Trim(f.email),
     date |-> f.date,
     time |-> f.time,
     partySize |-> Num(Number(f.partySize)),
     notes |-> Trim(f.notes),
     createdAt |-> clock]

\* the new booking put last: [...b, newBooking]
appendLast(nb, b) == [b EXCEPT !.items = b.items \o <<nb>>]

\* setBookings((b) => [newBooking, ...b]), line 138
prepend(nb, b) == [b EXCEPT !.items = <<nb>> \o b.items]

\* handleSubmit, lines 123-142; rnd is what Math.random yields; the model
\* lets the store grow to maxLen bookings
handleSubmit(rnd, maxLen) ==
    /\ Idle
    /\ LET e == validate(form, bookings, now) IN
        IF e # {}
        THEN /\ errors' = e
             /\ success' = NoSuccess
             /\ UNCHANGED <<bookings, form, effectPending>>
        ELSE /\ Len(bookings.items) < maxLen
             /\ bookings' = prepend(newBooking(form, now, rnd), bookings)
             /\ errors' = e
             /\ success' = [shown |-> TRUE, date |-> form.date, time |-> form.time]
             /\ form' = [form EXCEPT !.name = <<>>, !.phone = <<>>, !.email = <<>>,
                                     !.notes = <<>>]
             /\ effectPending' = TRUE
    /\ upcomingBookings' = upcoming(bookings', now)
    /\ UNCHANGED <<phase, storage, today, timeslots, now, tz, call, slots>>

\* the filter written with ===: it keeps the matching booking
removeIdKeepsMatch(b, id) == [b EXCEPT !.items = SelectSeq(b.items, LAMBDA x : x.id = id)]

\* b.filter((x) => x.id !== id), line 146
removeId(b, id) == [b EXCEPT !.items = SelectSeq(b.items, LAMBDA x : x.id # id)]

\* handleCancel, lines 144-147; confirmed is what confirm() returns.  The
\* filter yields a new array, so the effect runs even when nothing matched.
handleCancel(id, confirmed) ==
    /\ Idle
    /\ IF confirmed
       THEN /\ bookings' = removeId(bookings, id)
            /\ effectPending' = TRUE
       ELSE UNCHANGED <<bookings, effectPending>>
    /\ upcomingBookings' = IF confirmed THEN upcoming(bookings', now) ELSE upcomingBookings
    /\ UNCHANGED <<phase, form, errors, success, storage, today, timeslots, now, tz,
                   call, slots>>

\* the Reset button, lines 279-283
resetForm ==
    /\ Idle
    /\ form' = [form EXCEPT !.name = <<>>, !.phone = <<>>, !.email = <<>>, !.notes = <<>>]
    /\ errors' = {}
    /\ success' = NoSuccess
    /\ upcomingBookings' = upcoming(bookings, now)
    /\ UNCHANGED <<phase, bookings, storage, effectPending, today, timeslots, now, tz,
                   call, slots>>

\* the clock advances by d minutes, up to the instant horizon
Tick(d, horizon) ==
    /\ now + d <= horizon
    /\ now' = now + d
    /\ UNCHANGED <<phase, bookings, form, errors, success, storage, effectPending,
                   upcomingBookings, today, timeslots, tz, call, slots>>

\* The page is loaded again: the module and the component start over and
\* only localStorage is kept.
Reload ==
    /\ phase # "boot"
    /\ ~effectPending
    /\ phase' = "boot"
    /\ bookings' = EmptyArray
    /\ form' = InitialForm(<<>>, <<<<>>>>)
    /\ errors' = {}
    /\ success' = NoSuccess
    /\ upcomingBookings' = <<>>
    /\ today' = <<>>
    /\ timeslots' = <<>>
    /\ UNCHANGED <<storage, effectPending, now, tz, call, slots>>

----------------------------------------------------------------------------
(* The stand-alone call of generateTimeSlots                               *)

NoCall == [open |-> <<>>, close |-> <<>>, stepMinutes |-> 0, done |-> TRUE]

callGenerate ==
    /\ ~call.done
    /\ slots' = generateTimeSlots(call.open, call.close, call.stepMinutes)
    /\ call' = [call EXCEPT !.done = TRUE]
    /\ UNCHANGED <<phase, bookings, form, errors, success, storage, effectPending,
                   upcomingBookings, today, timeslots, now, tz>>

----------------------------------------------------------------------------
(* Environments and inputs                                                 *)

\* the day the model runs on, 2025-03-09, and the clock at the start, 10:58
Day0 == DaysFromCivil(2025, 3, 9)

T0 == Day0 * MinutesPerDay + 10 * 60 + 58

NoTransition == [from |-> 0, len |-> 0]

\* clocks go from 02:00 to 03:00 on Day0
SpringForward == [from |-> Day0 * MinutesPerDay + 2 * 60, len |-> 60]

Transitions == {NoTransition, SpringForward}

TODAY == <<"2", "0", "2", "5", "-", "0", "3", "-", "0", "9">>
YESTERDAY == <<"2", "0", "2", "5", "-", "0", "3", "-", "0", "8">>

T1100 == <<"1", "1", ":", "0", "0">>
T1800 == <<"1", "8", ":", "0", "0">>

NAME_ANA == <<"A", "n", "a">>
NAME_PADDED == <<" ", "A", "n", "a", " ">>
NAME_BLANK == <<" ", " ">>

PHONE_OK == <<"1", "2", "3", "-", "4", "5", "6", "-", "7", "8", "9", "0">>
PHONE_SHORT == <<"1", "2", "3", "4", "5">>

EMAIL_OK == <<"a", "n", "a", "@", "x", ".", "c", "o", "m">>
EMAIL_BAD == <<"n", "o", "t", "-", "a", "n", "-", "e", "m", "a", "i", "l">>

\* the state before the page loads, with st in localStorage
Boot(st, clock, trans, c) ==
    /\ now = clock
    /\ tz = trans
    /\ storage = st
    /\ phase = "boot"
    /\ bookings = EmptyArray
    /\ form = InitialForm(<<>>, <<<<>>>>)
    /\ errors = {}
    /\ success = NoSuccess
    /\ effectPending = FALSE
    /\ upcomingBookings = <<>>
    /\ today = <<>>
    /\ timeslots = <<>>
    /\ call = c
    /\ slots = <<>>

----------------------------------------------------------------------------
(* Specification SpecSlots: generateTimeSlots on its own                   *)

SlotTimes ==
    {<<"0", "0", ":", "0", "0">>, <<"0", "1", ":", "0", "0">>, <<"0", "1", ":", "3", "0">>, <<"0", "2", ":", "0", "0">>,
     <<"0", "2", ":", "3", "0">>, <<"0", "3", ":", "0", "0">>, <<"0", "9", ":", "0", "5">>, DEFAULT_OPEN,
     DEFAULT_CLOSE, <<"2", "3", ":", "3", "0">>, <<"2", "3", ":", "5", "9">>}

SlotSteps == {20, 30, 45, 60, 90, 24 * 60}

InitSlots ==
    \E trans \in Transitions, o \in SlotTimes, c \in SlotTimes, st \in SlotSteps :
        Boot(Missing, T0, trans, [open |-> o, close |-> c, stepMinutes |-> st, done |-> FALSE])

NextSlots == callGenerate

SpecSlots == InitSlots /\ [][NextSlots]_vars

----------------------------------------------------------------------------
(* Specification SpecEmpty: the component started on an empty store and    *)
(* driven with valid entries, to fill slots up to the capacity             *)

\* the ids of the stored bookings, and one that no booking has
StoredIds == {bookings.items[i].id : i \in DOMAIN bookings.items}

AbsentId == [ts |-> 0, rnd |-> "absent"]

\* the options of the time select that the model picks from
TimeChoices == {timeslots[i] : i \in {1, 15} \cap DOMAIN timeslots}

Rnds == {"r1"}

\* MaxBookings caps the length the store may grow to under SpecEmpty.
MaxBookings == 7

EmptyChanges ==
    {<<"name", NAME_ANA>>, <<"phone", PHONE_OK>>, <<"email", EMAIL_OK>>}
    \cup {<<"time", t>> : t \in TimeChoices}

InitEmpty == Boot(Missing, T0, NoTransition, NoCall)

NextEmpty ==
    \/ Mount
    \/ persistEffect
    \/ \E ch \in EmptyChanges : handleChange(ch[1], ch[2])
    \/ \E rnd \in Rnds : handleSubmit(rnd, MaxBookings)
    \/ \E id \in StoredIds \cup {AbsentId}, confirmed \in BOOLEAN : handleCancel(id, confirmed)

SpecEmpty == InitEmpty /\ [][NextEmpty]_vars

----------------------------------------------------------------------------
(* Stored bookings that localStorage may hold when the page loads          *)

Stored(k, date, time) ==
    [id |-> [ts |-> T0 - 24 * 60, rnd |-> k],
     name |-> NAME_ANA, phone |-> PHONE_OK, email |-> EMAIL_OK,
     date |-> date, time |-> time,
     partySize |-> Num(Int2Num(4)), notes |-> <<>>, createdAt |-> T0 - 24 * 60]

Array(items) == [kind |-> "array", items |-> items]

\* three bookings: today 11:00, today 18:00 and one of yesterday
Stored3 == Array(<<Stored("a", TODAY, T1100), Stored("b", TODAY, T1800),
                   Stored("c", YESTERDAY, T1100)>>)

\* n bookings of today 11:00, with the ids "s1", "s2", ...
SlotIds == <<"s1", "s2", "s3", "s4", "s5", "s6", "s7", "s8">>

SameSlot(n) == Array([i \in 1..n |-> Stored(SlotIds[i], TODAY, T1100)])

\* a JSON text that is well formed and holds an object, not an array
NotAnArray == [kind |-> "object", items |-> <<>>]

----------------------------------------------------------------------------
(* Specification Spec: the component from page load, over the contents     *)
(* localStorage may have, with cancellation, persistence and reloads       *)

InitialStorages ==
    {Missing, EmptyText, Unparseable, JsonText(NotAnArray), JsonText(EmptyArray),
     JsonText(Stored3)}

\* MaxStore caps the length the store may grow to under Spec.
MaxStore == 3

\* MaxElapsed caps the minutes the clock runs past T0.
MaxElapsed == 8

Changes ==
    {<<"name", NAME_PADDED>>, <<"phone", PHONE_OK>>, <<"email", EMAIL_OK>>}
    \cup {<<"time", t>> : t \in TimeChoices}

Init == \E st \in InitialStorages, trans \in Transitions : Boot(st, T0, trans, NoCall)

Next ==
    \/ Mount
    \/ persistEffect
    \/ \E ch \in Changes : handleChange(ch[1], ch[2])
    \/ \E rnd \in Rnds : handleSubmit(rnd, MaxStore)
    \/ \E id \in StoredIds \cup {AbsentId}, confirmed \in BOOLEAN : handleCancel(id, confirmed)
    \/ resetForm
    \/ Tick(8, T0 + MaxElapsed)
    \/ Reload

Spec == Init /\ [][Next]_vars

----------------------------------------------------------------------------
(* Specification SpecForm: submit over the forms the inputs can hold and   *)
(* stores at, below and above the capacity of a slot                       *)

EMAIL_NODOT == <<"a", "n", "a", "@", "x">>

EMAIL_SPACED == <<"a", " ", "n", "a", "@", "x", ".", "c", "o", "m">>

FormNames == {<<>>, NAME_BLANK, NAME_PADDED}

FormPhones == {PHONE_SHORT, PHONE_OK}

FormEmails == {EMAIL_BAD, EMAIL_NODOT, EMAIL_SPACED, EMAIL_OK}

\* <<>> is the date input cleared
FormDates == {<<>>, YESTERDAY, TODAY}

FormTimes == {T1100, T1800}

FormPartySizes ==
    {Num(Int2Num(2)), Str(<<"1">>), Str(<<"1", "2">>), Str(<<"1", "3">>), Str(<<"0">>),
     Str(<<"2", ".", "5">>), Str(<<"a", "b", "c">>), Str(<<>>)}

FormStores == {EmptyArray, Stored3, SameSlot(5), SameSlot(6), SameSlot(7)}

\* 10:58, when today's 11:00 is ahead, and 11:06, when it is past the grace
FormClocks == {T0, T0 + 8}

\* MaxFormStore caps the length the store may grow to under SpecForm.
MaxFormStore == 8

\* the component at rest: mounted on the store b, effects flushed, the form
\* filled in
InitForm ==
    \E clock \in FormClocks :
        /\ now = clock
        /\ tz = NoTransition
        /\ timeslots = TIMESLOTS
        /\ today = formatDate(NewDate)
        /\ phase = "running"
        /\ errors = {}
        /\ success = NoSuccess
        /\ effectPending = FALSE
        /\ call = NoCall
        /\ slots = <<>>
        /\ \E b \in FormStores :
            /\ bookings = b
            /\ storage = stringify(b)
            /\ upcomingBookings = upcoming(b, clock)
            /\ \E n \in FormNames, p \in FormPhones, e \in FormEmails, d \in FormDates,
                  t \in FormTimes, ps \in FormPartySizes :
                   form = [name |-> n, phone |-> p, email |-> e, date |-> d, time |-> t,
                           partySize |-> ps, notes |-> <<>>]

NextForm ==
    \/ \E rnd \in Rnds : handleSubmit(rnd, MaxFormStore)
    \/ persistEffect

SpecForm == InitForm /\ [][NextForm]_vars

----------------------------------------------------------------------------
(* Specification SpecUpcoming: the component loaded on long stores, so     *)
(* that the view is cut at its limit                                       *)

\* MaxUpcomingLen caps the length of the stores loaded under SpecUpcoming.
MaxUpcomingLen == 52

\* the i-th booking of a stored sequence laid out as pattern pat: all of
\* today 18:00 (1), today 11:00 and yesterday in turn (2), one of yesterday
\* and then today 18:00 (3), all of yesterday (4)
Patterned(pat, i) ==
    LET date == IF pat = 1 \/ (pat = 2 /\ i % 2 = 1) \/ (pat = 3 /\ i > 1)
                THEN TODAY ELSE YESTERDAY
        time == IF pat \in {1, 3} THEN T1800 ELSE T1100
    IN  [Stored("p", date, time) EXCEPT !.id = [ts |-> T0 - 24 * 60 - i, rnd |-> "p"]]

LongStore(pat, n) == Array([i \in 1..n |-> Patterned(pat, i)])

Patterns == {1, 2, 3, 4}

\* 11:00 sharp, when today's 11:00 is at now, and 11:06
UpcomingClocks == {T0 + 2, T0 + 8}

InitUpcoming ==
    \E pat \in Patterns, n \in 0..MaxUpcomingLen, clock \in UpcomingClocks :
        Boot(JsonText(LongStore(pat, n)), clock, NoTransition, NoCall)

NextUpcoming ==
    \/ Mount
    \/ persistEffect
    \/ \E t \in TimeChoices : handleChange("time", t)

SpecUpcoming == InitUpcoming /\ [][NextUpcoming]_vars

----------------------------------------------------------------------------
(* Claims about generateTimeSlots (SpecSlots)                              *)

WellFormedHHMM(s) ==
    /\ Len(s) = 5 /\ s[3] = ":"
    /\ \A i \in {1, 2, 4, 5} : IsDigit(s[i])
    /\ DigitsVal(SubSeq(s, 1, 2)) <= 23 /\ DigitsVal(SubSeq(s, 4, 5)) <= 59

\* the minute of the day that "HH:MM" names
MinuteOfDay(s) == DigitsVal(SubSeq(s, 1, 2)) * 60 + DigitsVal(SubSeq(s, 4, 5))

\* what C8 says of one finished call
SlotsAsClaimed ==
    LET o == MinuteOfDay(call.open)
        c == MinuteOfDay(call.close)
        n == Len(slots)
    IN  IF o <= c
        THEN /\ n >= 1
             /\ slots[1] = call.open
             /\ \A i \in 1..n : WellFormedHHMM(slots[i])
             /\ \A i \in 1..(n - 1) :
                    MinuteOfDay(slots[i + 1]) - MinuteOfDay(slots[i]) = call.stepMinutes
             /\ MinuteOfDay(slots[n]) <= c
             /\ ((c - o) % call.stepMinutes = 0 => slots[n] = call.close)
        ELSE n <= 1

Called == call.done /\ call.open # <<>>

\* C8: for well-formed open <= close and a positive step, generateTimeSlots
\* returns a strictly increasing sequence of HH:MM strings that starts at
\* open, advances by exactly stepMinutes, does not pass close and ends at
\* close when close is on the grid; for close < open it returns at most one
\* element.
C8_TimeSlots == Called => SlotsAsClaimed

\* C8 on a day whose local time has no transition: there the claim holds.
C8_NoTransitionDay == (Called /\ tz.len = 0) => SlotsAsClaimed

\* a call that returned several slots on a day without a transition
C8_NoTransitionWitness == Called /\ tz.len = 0 /\ Len(slots) >= 3

----------------------------------------------------------------------------
(* Claims about capacity and admission                                     *)

\* the bookings of the store b that have this date and this time
InSlot(b, date, time) ==
    Cardinality({i \in DOMAIN b.items : b.items[i].date = date /\ b.items[i].time = time})

SlotsOf(b) == {<<b.items[i].date, b.items[i].time>> : i \in DOMAIN b.items}

\* C1 (SpecEmpty): from an empty store, whatever submits and cancels are
\* performed, no (date, time) pair has more than MAX_TABLES_PER_SLOT
\* bookings in the store.
C1_Capacity ==
    \A sl \in SlotsOf(bookings) : InSlot(bookings, sl[1], sl[2]) <= MAX_TABLES_PER_SLOT

\* a slot is full, another slot holds a booking, and a submit for the full
\* slot has been turned down
C1_Witness ==
    /\ Len(bookings.items) = MAX_TABLES_PER_SLOT + 1
    /\ InSlot(bookings, form.date, form.time) = MAX_TABLES_PER_SLOT
    /\ errors = {"time"}

\* C2 (SpecForm): a submit for a slot that holds MAX_TABLES_PER_SLOT bookings
\* gets the message on the time field and leaves the store as it was.
C2_SlotFull ==
    [][\A rnd \in Rnds :
          (/\ handleSubmit(rnd, MaxFormStore)
           /\ InSlot(bookings, form.date, form.time) = MAX_TABLES_PER_SLOT)
          => ("time" \in errors' /\ bookings' = bookings /\ ~success'.shown)]_vars

\* a submit for a slot holding exactly the capacity was turned down, and
\* the store and what is persisted are as they were loaded
C2_Witness ==
    /\ "time" \in errors
    /\ InSlot(bookings, form.date, form.time) = MAX_TABLES_PER_SLOT
    /\ ~effectPending
    /\ storage = stringify(bookings)

\* C3 (SpecForm): a submit that passes validation makes the store the new
\* booking followed by the previous store; the new booking has the form's
\* date, time and party size, and the slot has one table less.
C3_Admit ==
    [][\A rnd \in Rnds :
          (/\ handleSubmit(rnd, MaxFormStore)
           /\ validate(form, bookings, now) = {})
          => /\ Len(bookings'.items) = Len(bookings.items) + 1
             /\ bookings'.items[1].date = form.date
             /\ bookings'.items[1].time = form.time
             /\ bookings'.items[1].partySize = Num(Number(form.partySize))
             /\ Tail(bookings'.items) = bookings.items
             /\ availableTables(bookings', form.date, form.time)
                    = availableTables(bookings, form.date, form.time) - 1]_vars

\* a booking was just admitted on top of a loaded store
C3_Witness ==
    /\ success.shown
    /\ effectPending
    /\ Len(bookings.items) >= 4
    /\ bookings.items[1].date = success.date
    /\ bookings.items[1].time = success.time
    /\ Len(storage.value.items) = Len(bookings.items) - 1

----------------------------------------------------------------------------
(* Claims about cancellation, persistence and loading (Spec)               *)

\* the positions of s whose booking has another id than id
KeptAt(s, id) == {i \in DOMAIN s : s[i].id # id}

\* the k-th position, in order, of the set of positions P
NthOf(P, k) == CHOOSE i \in P : Cardinality({j \in P : j < i}) = k - 1

\* new is old without the bookings of this id, the others as they were and in
\* their order
IsRemoval(old, new, id) ==
    /\ Len(new) = Cardinality(KeptAt(old, id))
    /\ \A k \in DOMAIN new : new[k] = old[NthOf(KeptAt(old, id), k)]

\* C4 (Spec): a confirmed cancel leaves the store without the booking of
\* that id and with every other booking unchanged and in order; for an id no
\* booking has, the store is unchanged, so a second cancel of the same id
\* changes nothing; a declined cancel leaves the store unchanged.
C4_Cancel ==
    [][\A id \in StoredIds \cup {AbsentId}, confirmed \in BOOLEAN :
          handleCancel(id, confirmed)
          => IF confirmed
             THEN /\ IsRemoval(bookings.items, bookings'.items, id)
                  /\ (id \notin StoredIds => bookings' = bookings)
                  /\ \A k \in DOMAIN bookings'.items : bookings'.items[k].id # id
                  /\ IsRemoval(bookings'.items, bookings'.items, id)
             ELSE bookings' = bookings]_vars

\* one booking of several was just cancelled and the others are still there
C4_Witness ==
    /\ phase = "running"
    /\ effectPending
    /\ storage.wellFormed
    /\ Len(bookings.items) >= 2
    /\ Len(storage.value.items) = Len(bookings.items) + 1

\* C5 (Spec): whenever an operation can start, the value under the key is
\* the serialization of the whole current store and loading it gives the
\* store back; every change of the store schedules the write.
C5_Persistence ==
    /\ [](Idle => (storage = stringify(bookings) /\ LoadBookings(storage) = bookings))
    /\ [][(phase = "running" /\ phase' = "running" /\ bookings' # bookings)
            => effectPending']_vars

\* a booking admitted in this run has been written, on top of older ones
C5_Witness ==
    /\ Idle
    /\ success.shown
    /\ Len(bookings.items) >= 2
    /\ bookings.items[1].createdAt >= T0
    /\ Len(storage.value.items) = Len(bookings.items)

\* the key holds the serialization of a sequence of bookings
HoldsSequence(raw) == raw.present /\ ~raw.empty /\ raw.wellFormed /\ raw.value.kind = "array"

\* C6 (Spec): the page load ends with a store that is a sequence, the
\* persisted one when the key holds one and the empty one otherwise, and the
\* component runs.
C6_Load ==
    [][Mount => /\ phase' = "running"
                /\ IsArray(bookings')
                /\ bookings' = IF HoldsSequence(storage) THEN storage.value
                               ELSE EmptyArray]_vars

\* C6 for every content other than a JSON text of something not an array
C6_LoadOfSequenceOrGarbage ==
    [][(Mount /\ (storage.wellFormed => storage.value.kind = "array"))
          => /\ phase' = "running"
             /\ bookings' = IF HoldsSequence(storage) THEN storage.value
                            ELSE EmptyArray]_vars

----------------------------------------------------------------------------
(* Claims about validation (SpecForm)                                      *)

\* the pattern local-part@domain.tld: one @, not first, a dot in the domain
\* that is neither its first nor its last character, no whitespace
EmailShape(e) ==
    \E a \in 2..Len(e) :
        /\ e[a] = "@"
        /\ \A i \in 1..Len(e) : (i # a => e[i] # "@") /\ ~IsSpace(e[i])
        /\ \E d \in (a + 2)..(Len(e) - 1) : e[d] = "."

IntegerInRange(a) == IsInteger(a) /\ NumGE(a, MIN_PARTY) /\ NumLE(a, MAX_PARTY)

\* the fields whose rule, as the six rules are stated, the candidate violates
RulesViolated(f, b, clock, partyRule(_)) ==
    LET selected == ParseDate(f.date \o <<"T">> \o f.time \o <<":", "0", "0">>) IN
    {k \in Fields :
        \/ k = "name" /\ \A i \in 1..Len(f.name) : IsSpace(f.name[i])
        \/ k = "phone" /\ Cardinality({i \in 1..Len(f.phone) : IsDigit(f.phone[i])}) \notin 7..15
        \/ k = "email" /\ ~EmailShape(f.email)
        \/ k = "date" /\ selected.valid /\ selected.t < clock - GRACE_MINUTES
        \/ k = "partySize" /\ ~partyRule(Number(f.partySize))
        \/ k = "time" /\ InSlot(b, f.date, f.time) >= MAX_TABLES_PER_SLOT}

RangeOnly(a) == NumGE(a, MIN_PARTY) /\ NumLE(a, MAX_PARTY)

SubmitReports(partyRule(_)) ==
    \A rnd \in Rnds :
        handleSubmit(rnd, MaxFormStore)
        => LET v == RulesViolated(form, bookings, now, partyRule) IN
           /\ errors' = v
           /\ (bookings' # bookings <=> v = {})
           /\ (v = {"email"} => errors' = {"email"} /\ bookings' = bookings)

\* C7 (SpecForm): a submit reports an error on a field exactly when that
\* field's rule is violated, all six rules being evaluated, and admits the
\* booking exactly when no rule is violated; a candidate whose only
\* violation is the email gets exactly the email error and the store is
\* unchanged.
C7_AllRules == [][SubmitReports(IntegerInRange)]_vars

\* C7 with the party-size rule read as "between 1 and 12", integer or not
C7_RangeRule == [][SubmitReports(RangeOnly)]_vars

\* C9 (SpecForm): every booking a submit admits has an integer party size
\* between 1 and 12; a submit whose party size is not such an integer gets
\* the party-size error and adds nothing to the store.
C9_PartySize ==
    [][\A rnd \in Rnds :
          handleSubmit(rnd, MaxFormStore)
          => /\ (bookings' # bookings => IntegerInRange(bookings'.items[1].partySize.val))
             /\ (~IntegerInRange(Number(form.partySize))
                    => "partySize" \in errors' /\ bookings' = bookings)]_vars

\* C9 without the requirement that the party size is an integer
C9_RangeOnly ==
    [][\A rnd \in Rnds :
          handleSubmit(rnd, MaxFormStore)
          => /\ (bookings' # bookings => RangeOnly(bookings'.items[1].partySize.val))
             /\ (~RangeOnly(Number(form.partySize))
                    => "partySize" \in errors' /\ bookings' = bookings)]_vars

----------------------------------------------------------------------------
(* Claims about the upcoming view (SpecUpcoming)                           *)

\* the positions of the bookings of b whose date and time are at or after clock
UpcomingAt(b, clock) ==
    {i \in DOMAIN b.items :
        LET d == ParseDate(b.items[i].date \o <<"T">> \o b.items[i].time)
        IN  d.valid /\ d.t >= clock}

\* C10 (SpecUpcoming): the view holds exactly the first 50, in store order,
\* of the bookings at or after now, none before now, and the store is what
\* was loaded.
C10_Upcoming ==
    phase = "running" =>
        LET up == UpcomingAt(bookings, now)
            rank == [i \in up |-> Cardinality({j \in up : j < i}) + 1]
            first == {i \in up : rank[i] <= UPCOMING_LIMIT}
        IN  /\ Len(upcomingBookings) = Cardinality(first)
            /\ \A i \in first : upcomingBookings[rank[i]] = bookings.items[i]
            /\ \A k \in DOMAIN upcomingBookings :
                  ~DateLT(ParseDate(upcomingBookings[k].date \o <<"T">> \o upcomingBookings[k].time),
                          [valid |-> TRUE, t |-> now])
            /\ bookings = LoadBookings(storage)

\* the view is cut at the limit and starts after a booking that is past
C10_Witness ==
    /\ phase = "running"
    /\ Len(upcomingBookings) = UPCOMING_LIMIT
    /\ Cardinality(UpcomingAt(bookings, now)) = UPCOMING_LIMIT + 1
    /\ upcomingBookings[1] = bookings.items[2]

====
